---------------------------- MODULE Spec2Model ----------------------------
(***************************************************************************)
(* The landing page of src/Index.tsx (the preloader-gated page, called     *)
(* PageLifecycle in the specification) and the scroll tracker of the       *)
(* navigation bar in src/Footer.tsx (ElegantNavigation, called             *)
(* SectionTracker), together with the browser state they read and write:   *)
(* document.body.style.overflow, window.scrollY, the anchors of the        *)
(* document with their bounding rectangles, the registered scroll          *)
(* listener and the scrollIntoView invocations.                            *)
(*                                                                         *)
(* One instance of the page is followed from its first render to after its *)
(* unmount.  React runs the passive effects of a commit after the commit   *)
(* and before the next render of the same root, so each effect is a step   *)
(* of its own that precedes every later render or unmount.                 *)
(***************************************************************************)
EXTENDS Integers, Sequences, FiniteSets

VARIABLES
    indexPc,              \* Index: "rendered" (first commit, effect pending), "mounted", "unmounted"
    isLoaded,             \* Index.tsx:12, the useState value
    overflow,             \* document.body.style.overflow: "" (never written), "hidden", "unset"
    dark,                 \* document.documentElement.classList contains "dark"
    preloaderMounted,     \* <Preloader/> is in the committed tree
    mainMounted,          \* the main application subtree is in the committed tree
    scrollListener,       \* handleScroll is registered on window "scroll"
    isScrolled,           \* Footer.tsx:133
    activeSection,        \* Footer.tsx:134
    scrollY,              \* window.scrollY
    anchors,              \* section id -> [present, top, bottom]: getElementById + getBoundingClientRect
    scrollIntoViewCalls,  \* number of element.scrollIntoView({behavior: "smooth"}) invocations
    scrollIntoViewTarget  \* id of the element of the last such invocation, "" before the first

vars == <<indexPc, isLoaded, overflow, dark, preloaderMounted, mainMounted,
          scrollListener, isScrolled, activeSection, scrollY, anchors,
          scrollIntoViewCalls, scrollIntoViewTarget>>

lifecycleVars == <<indexPc, isLoaded, overflow, dark, preloaderMounted, mainMounted>>
trackerVars == <<isScrolled, activeSection>>
browserVars == <<scrollY, anchors>>
invocationVars == <<scrollIntoViewCalls, scrollIntoViewTarget>>

---------------------------------------------------------------------------
(* Program constants *)

\* Footer.tsx:138  window.scrollY > 50
ScrollThreshold == 50

\* Footer.tsx:146  rect.top <= 100 && rect.bottom >= 100
RefLine == 100

\* Footer.tsx:141
sections == <<"hero", "services", "work", "about", "contact">>

SectionIds == {sections[i] : i \in 1..Len(sections)}

\* The value of Array.prototype.find when no element matches
Undefined == "undefined"

\* Footer.tsx:189, 206 (navItems 167-171), 232: the ids the navigation passes
NavTargets == {"hero", "work", "services", "about", "contact"}

\* Footer.tsx:50, 58, 66: the ids the footer passes
FooterTargets == {"work", "services", "contact"}

---------------------------------------------------------------------------
(* Bounds of the model *)

\* scrollIntoView invocations are counted up to this number
MaxCalls == 1

\* largest scroll offset; the offsets are 0 and ScrollThreshold .. MaxScrollY
MaxScrollY == 51

ScrollYs == {0} \cup (ScrollThreshold..MaxScrollY)

\* Rectangles of a present anchor, one for each outcome of the two
\* comparisons with the reference line: both edges on the line, wholly
\* below the line (top > line), wholly above it (bottom < line).
RectChoices ==
    { [present |-> TRUE, top |-> RefLine,     bottom |-> RefLine],
      [present |-> TRUE, top |-> RefLine + 1, bottom |-> RefLine + 2],
      [present |-> TRUE, top |-> RefLine - 2, bottom |-> RefLine - 1] }

\* document.getElementById(id) === null
Absent == [present |-> FALSE, top |-> 0, bottom |-> 0]

AllAbsent == [s \in SectionIds |-> Absent]

\* The geometries of a document whose present anchors are P
Layouts(P) ==
    { [s \in SectionIds |-> IF s \in P THEN f[s] ELSE Absent] :
        f \in [P -> RectChoices] }

\* Anchor sets of the mounted main application: Index.tsx:107 renders the
\* "hero" anchor itself; the other anchors belong to child components and
\* may or may not be in the markup (up to two of them are taken present).
MainAnchorSets ==
    { {"hero"} \cup P : P \in { Q \in SUBSET (SectionIds \ {"hero"}) :
                                   Cardinality(Q) <= 2 } }

MainDocuments == UNION { Layouts(P) : P \in MainAnchorSets }

\* The geometries a document can take when the viewport moves: the same
\* anchors, any rectangles.
Relayouts(doc) == Layouts({s \in SectionIds : doc[s].present})

---------------------------------------------------------------------------
(* Index (src/Index.tsx) *)

\* Index.tsx:93 and 96: {!isLoaded && <Preloader/>} {isLoaded && <div>...}
RenderGate(loaded) == [preloader |-> ~loaded, main |-> loaded]

Init ==
    /\ indexPc = "rendered"
    /\ isLoaded = FALSE
    /\ overflow = ""
    /\ dark = FALSE
    /\ preloaderMounted = RenderGate(FALSE).preloader
    /\ mainMounted = RenderGate(FALSE).main
    /\ scrollListener = FALSE
    /\ isScrolled = FALSE
    /\ activeSection = ""
    /\ scrollY = 0
    /\ anchors = AllAbsent
    /\ scrollIntoViewCalls = 0
    /\ scrollIntoViewTarget = ""

\* Index.tsx:72-78: the body of the mount effect
IndexMountEffect_NoLock ==
    /\ indexPc = "rendered"
    /\ indexPc' = "mounted"
    /\ dark' = TRUE
    /\ UNCHANGED <<isLoaded, overflow, preloaderMounted, mainMounted, scrollListener>>
    /\ UNCHANGED <<trackerVars, browserVars, invocationVars>>

IndexMountEffect ==
    /\ indexPc = "rendered"
    /\ indexPc' = "mounted"
    /\ dark' = TRUE
    /\ overflow' = "hidden"
    /\ UNCHANGED <<isLoaded, preloaderMounted, mainMounted, scrollListener>>
    /\ UNCHANGED <<trackerVars, browserVars, invocationVars>>

\* Index.tsx:85-88.  The Preloader holds the callback from the first commit
\* on and invokes it some time after the commit's effects; nothing in the
\* handler stops a repeated or a late invocation.  React drops a state
\* update of an unmounted component.
handlePreloaderComplete_Toggle ==
    /\ indexPc # "rendered"
    /\ isLoaded' = IF indexPc = "mounted" THEN ~isLoaded ELSE isLoaded
    /\ overflow' = "unset"
    /\ UNCHANGED <<indexPc, dark, preloaderMounted, mainMounted, scrollListener>>
    /\ UNCHANGED <<trackerVars, browserVars, invocationVars>>

handlePreloaderComplete ==
    /\ indexPc # "rendered"
    /\ isLoaded' = IF indexPc = "mounted" THEN TRUE ELSE isLoaded
    /\ overflow' = "unset"
    /\ UNCHANGED <<indexPc, dark, preloaderMounted, mainMounted, scrollListener>>
    /\ UNCHANGED <<trackerVars, browserVars, invocationVars>>

\* Index.tsx:90-136: the re-render that setIsLoaded(true) schedules, committed:
\* the preloader leaves the tree, the main application and its anchors enter it.
Rerender ==
    /\ indexPc = "mounted"
    /\ preloaderMounted # RenderGate(isLoaded).preloader
       \/ mainMounted # RenderGate(isLoaded).main
    /\ preloaderMounted' = RenderGate(isLoaded).preloader
    /\ mainMounted' = RenderGate(isLoaded).main
    /\ anchors' \in MainDocuments
    /\ UNCHANGED <<indexPc, isLoaded, overflow, dark, scrollListener, scrollY>>
    /\ UNCHANGED <<trackerVars, invocationVars>>

\* Index.tsx:79-82: the cleanup of the mount effect
IndexCleanup_NoRelease ==
    /\ UNCHANGED overflow

IndexCleanup ==
    /\ overflow' = "unset"

---------------------------------------------------------------------------
(* ElegantNavigation (src/Footer.tsx:132-242) *)

\* Footer.tsx:138
PastThreshold_Inclusive(y) == y >= ScrollThreshold

PastThreshold(y) == y > ScrollThreshold

\* Footer.tsx:143-148: the predicate given to find
Straddles(g, section) ==
    IF g[section].present
    THEN g[section].top <= RefLine /\ g[section].bottom >= RefLine
    ELSE FALSE

\* Footer.tsx:142: sections.find(...), from index i on
RECURSIVE FindFrom(_, _)
FindFrom(g, i) ==
    IF i > Len(sections) THEN Undefined
    ELSE IF Straddles(g, sections[i]) THEN sections[i]
    ELSE FindFrom(g, i + 1)

RECURSIVE FindLastFrom(_, _)
FindLastFrom(g, i) ==
    IF i < 1 THEN Undefined
    ELSE IF Straddles(g, sections[i]) THEN sections[i]
    ELSE FindLastFrom(g, i - 1)

CurrentSection_Last(g) == FindLastFrom(g, Len(sections))

CurrentSection(g) == FindFrom(g, 1)

\* Footer.tsx:151: if (currentSection)
Truthy(v) == v # Undefined /\ v # ""

\* Footer.tsx:137-154, run on the scroll offset and geometry of the event
handleScroll_Reset ==
    /\ isScrolled' = PastThreshold(scrollY')
    /\ activeSection' = IF Truthy(CurrentSection(anchors'))
                        THEN CurrentSection(anchors')
                        ELSE ""

handleScroll_Unguarded ==
    /\ isScrolled' = PastThreshold(scrollY')
    /\ activeSection' = CurrentSection(anchors')

handleScroll ==
    /\ isScrolled' = PastThreshold(scrollY')
    /\ activeSection' = IF Truthy(CurrentSection(anchors'))
                        THEN CurrentSection(anchors')
                        ELSE activeSection

\* Footer.tsx:136, 156: the effect of ElegantNavigation, run after the commit
\* that mounted it
NavMountEffect ==
    /\ indexPc = "mounted"
    /\ mainMounted
    /\ ~scrollListener
    /\ scrollListener' = TRUE
    /\ UNCHANGED <<lifecycleVars, trackerVars, browserVars, invocationVars>>

\* Footer.tsx:157: the cleanup of that effect
NavCleanup_KeepListener ==
    /\ UNCHANGED scrollListener

NavCleanup ==
    /\ scrollListener' = FALSE

\* Footer.tsx:160-165
NavScrollToSection_Locks(sectionId) ==
    /\ mainMounted
    /\ scrollIntoViewCalls < MaxCalls
    /\ IF anchors[sectionId].present
       THEN /\ scrollIntoViewCalls' = scrollIntoViewCalls + 1
            /\ scrollIntoViewTarget' = sectionId
            /\ overflow' = "hidden"
       ELSE UNCHANGED <<invocationVars, overflow>>
    /\ UNCHANGED <<indexPc, isLoaded, dark, preloaderMounted, mainMounted>>
    /\ UNCHANGED <<scrollListener, trackerVars, browserVars>>

NavScrollToSection(sectionId) ==
    /\ mainMounted
    /\ scrollIntoViewCalls < MaxCalls
    /\ IF anchors[sectionId].present
       THEN /\ scrollIntoViewCalls' = scrollIntoViewCalls + 1
            /\ scrollIntoViewTarget' = sectionId
       ELSE UNCHANGED invocationVars
    /\ UNCHANGED <<lifecycleVars, scrollListener, trackerVars, browserVars>>

---------------------------------------------------------------------------
(* Footer (src/Footer.tsx:3-124) *)

\* Footer.tsx:6-11
FooterScrollToSection_Unchecked(sectionId) ==
    /\ mainMounted
    /\ scrollIntoViewCalls < MaxCalls
    /\ scrollIntoViewCalls' = scrollIntoViewCalls + 1
    /\ scrollIntoViewTarget' = sectionId
    /\ UNCHANGED <<lifecycleVars, scrollListener, trackerVars, browserVars>>

FooterScrollToSection(sectionId) ==
    /\ mainMounted
    /\ scrollIntoViewCalls < MaxCalls
    /\ IF anchors[sectionId].present
       THEN /\ scrollIntoViewCalls' = scrollIntoViewCalls + 1
            /\ scrollIntoViewTarget' = sectionId
       ELSE UNCHANGED invocationVars
    /\ UNCHANGED <<lifecycleVars, scrollListener, trackerVars, browserVars>>

---------------------------------------------------------------------------
(* The browser and React *)

\* A scroll event of the window: the offset and the rectangles of the
\* anchors change, and the registered listener runs on them.
ScrollEvent ==
    /\ scrollY' \in ScrollYs
    /\ anchors' \in Relayouts(anchors)
    /\ IF scrollListener THEN handleScroll ELSE UNCHANGED trackerVars
    /\ UNCHANGED <<lifecycleVars, scrollListener, invocationVars>>

\* The page is unmounted: the tree and its anchors leave the document and
\* the cleanups of the effects that ran are run (pending effects run first).
Unmount ==
    /\ indexPc = "mounted"
    /\ mainMounted => scrollListener
    /\ indexPc' = "unmounted"
    /\ preloaderMounted' = FALSE
    /\ mainMounted' = FALSE
    /\ anchors' = AllAbsent
    /\ NavCleanup
    /\ IndexCleanup
    /\ UNCHANGED <<isLoaded, dark, scrollY>>
    /\ UNCHANGED <<trackerVars, invocationVars>>

Next ==
    \/ IndexMountEffect
    \/ handlePreloaderComplete
    \/ Rerender
    \/ NavMountEffect
    \/ ScrollEvent
    \/ \E sectionId \in NavTargets : NavScrollToSection(sectionId)
    \/ \E sectionId \in FooterTargets : FooterScrollToSection(sectionId)
    \/ Unmount

Spec == Init /\ [][Next]_vars

TypeOK ==
    /\ indexPc \in {"rendered", "mounted", "unmounted"}
    /\ isLoaded \in BOOLEAN
    /\ overflow \in {"", "hidden", "unset"}
    /\ dark \in BOOLEAN
    /\ preloaderMounted \in BOOLEAN
    /\ mainMounted \in BOOLEAN
    /\ scrollListener \in BOOLEAN
    /\ isScrolled \in BOOLEAN
    /\ scrollY \in ScrollYs
    /\ anchors \in [SectionIds -> RectChoices \cup {Absent}]
    /\ scrollIntoViewCalls \in 0..MaxCalls
    /\ scrollIntoViewTarget \in SectionIds \cup {""}

---------------------------------------------------------------------------
(* Vocabulary of the properties *)

\* Page scroll is locked
ScrollLocked == overflow = "hidden"

\* The phase of the page while it is mounted (its mount effect has run and
\* it has not been torn down)
Loading == indexPc = "mounted" /\ ~isLoaded
Loaded == indexPc = "mounted" /\ isLoaded

\* The region's anchor is present and the reference line falls within its
\* rectangle
RegionOnLine(g, s) == g[s].present /\ g[s].top <= 100 /\ g[s].bottom >= 100

\* A step in which the tracker's onScroll runs
OnScrollStep == ScrollEvent /\ scrollListener

\* A step of scrollToRegion(id), of the navigation or of the footer
ScrollToRegionStep(id) ==
    \/ id \in NavTargets /\ NavScrollToSection(id)
    \/ id \in FooterTargets /\ FooterScrollToSection(id)

\* A step of PageLifecycle
LifecycleStep ==
    IndexMountEffect \/ handlePreloaderComplete \/ Rerender \/ Unmount

---------------------------------------------------------------------------
(* Properties *)

\* C1: once the page has been torn down without having reached Loaded, page
\* scroll is not locked: right after the teardown and in every later state
\* (a late completion signal included).
C1_TeardownReleasesLock ==
    (indexPc = "unmounted" /\ ~isLoaded) => (~ScrollLocked /\ overflow = "unset")

C1_Witness ==
    indexPc = "unmounted" /\ ~isLoaded /\ overflow = "unset" /\ scrollY > 0

C3_LoadedOnce ==
    [][ /\ isLoaded => isLoaded'
        /\ (~isLoaded /\ isLoaded') =>
              (handlePreloaderComplete /\ ScrollLocked /\ overflow' = "unset")
        /\ overflow = "unset" => overflow' = "unset"
        /\ isLoaded => overflow = "unset"
        /\ (isLoaded /\ handlePreloaderComplete) => UNCHANGED <<isLoaded, overflow>>
      ]_vars

C3_Witness ==
    isLoaded /\ overflow = "unset" /\ mainMounted /\ scrollListener

\* C4: after an onScroll for which some present region has the reference
\* line within its rectangle, activeSection is the earliest such region in
\* the declared order; absent anchors are passed over.
C4_FirstRegionOnLine ==
    [][ (OnScrollStep /\ \E s \in SectionIds : RegionOnLine(anchors', s)) =>
          \E i \in 1..Len(sections) :
              /\ RegionOnLine(anchors', sections[i])
              /\ \A j \in 1..(i - 1) : ~RegionOnLine(anchors', sections[j])
              /\ activeSection' = sections[i]
      ]_vars

C4_Witness ==
    /\ scrollListener
    /\ ~RegionOnLine(anchors, "hero")
    /\ ~anchors["services"].present
    /\ RegionOnLine(anchors, "work")
    /\ RegionOnLine(anchors, "contact")
    /\ activeSection = "work"

\* C5: an onScroll for which no region has the reference line within its
\* rectangle leaves activeSection as it was.
C5_NoMatchKeepsActive ==
    [][ (OnScrollStep /\ \A s \in SectionIds : ~RegionOnLine(anchors', s)) =>
          activeSection' = activeSection
      ]_vars

C5_Witness ==
    /\ scrollListener
    /\ activeSection = "services"
    /\ \A s \in SectionIds : ~RegionOnLine(anchors, s)

\* C6: after every onScroll, isScrolled is true exactly when the scroll
\* offset is greater than 50.
C6_PastThreshold ==
    [][ OnScrollStep => (isScrolled' <=> scrollY' > 50) ]_vars

C6_Witness ==
    scrollListener /\ activeSection # "" /\ scrollY = 50 /\ ~isScrolled

\* C7: activeSection is the empty initial value or one of the declared
\* regions.
C7_ActiveIsDeclaredOrNone ==
    activeSection \in {"", "hero", "services", "work", "about", "contact"}

C7_Witness ==
    activeSection \in SectionIds \ {"hero"} /\ scrollIntoViewCalls > 0

\* C8: a scrollToRegion(id) whose anchor is present makes one more
\* scrollIntoView invocation, on that anchor, and changes nothing else; one
\* whose anchor is absent changes nothing.
C8_ScrollToRegion ==
    [][ \A id \in NavTargets \cup FooterTargets :
          ScrollToRegionStep(id) =>
              IF anchors[id].present
              THEN /\ scrollIntoViewCalls' = scrollIntoViewCalls + 1
                   /\ scrollIntoViewTarget' = id
                   /\ UNCHANGED <<lifecycleVars, scrollListener, trackerVars, browserVars>>
              ELSE UNCHANGED vars
      ]_vars

C8_Witness ==
    /\ scrollIntoViewCalls = 1
    /\ scrollIntoViewTarget = "work"
    /\ anchors["work"].present
    /\ ~anchors["services"].present

\* C9: onScroll and scrollToRegion leave the scroll lock and the phase
\* unchanged, the steps of PageLifecycle leave isScrolled and activeSection
\* unchanged, and only the mount effect, the completion handler and the
\* teardown change the scroll lock.
C9_Frames ==
    [][ /\ (ScrollEvent \/ \E id \in NavTargets \cup FooterTargets : ScrollToRegionStep(id))
              => UNCHANGED <<overflow, isLoaded>>
        /\ LifecycleStep => UNCHANGED <<isScrolled, activeSection>>
        /\ overflow' # overflow =>
              (IndexMountEffect \/ handlePreloaderComplete \/ Unmount)
      ]_vars

C9_Witness ==
    /\ isLoaded
    /\ overflow = "unset"
    /\ activeSection # ""
    /\ isScrolled
    /\ scrollIntoViewCalls > 0

\* C10: the scroll handler is registered only while the page is mounted in
\* Loaded with the navigation in the tree; isScrolled and activeSection
\* change only in steps taken while it is registered, so they keep their
\* initial values throughout Loading and keep their last values after teardown.
C10_ListenerOnlyWhileMounted ==
    /\ [](scrollListener => (Loaded /\ mainMounted))
    /\ [](~isLoaded => (isScrolled = FALSE /\ activeSection = ""))
    /\ [][ ~scrollListener => UNCHANGED <<isScrolled, activeSection>> ]_vars

C10_Witness ==
    indexPc = "unmounted" /\ isLoaded /\ isScrolled /\ scrollY = 0

=============================================================================
